---- MODULE Spec2Model ----
(***************************************************************************)
(* Model of src/src/txgbe_sysfs.c: the hwmon/sysfs attribute registry of   *)
(* the txgbe driver (txgbe_sysfs_init, txgbe_add_hwmon_attr,               *)
(* txgbe_sysfs_del_adapter, txgbe_sysfs_exit).                             *)
(*                                                                         *)
(* The adapter's hwmon_buff (hwmon_list, n_hwmon, device) is the program   *)
(* state.  The kernel heap (kcalloc/kfree), the hwmon class                *)
(* (hwmon_device_register/unregister) and the sysfs namespace of the PCI   *)
(* device (device_create_file/device_remove_file) are the environment the  *)
(* code calls into; they are modelled by what those calls do.              *)
(*                                                                         *)
(* One call of txgbe_sysfs_init or txgbe_sysfs_exit runs at a time         *)
(* (pc = "idle" between calls).  A call is a sequence of steps, one per    *)
(* statement group of the source; txgbe_add_hwmon_attr is one step.        *)
(***************************************************************************)
EXTENDS Integers, Sequences, FiniteSets, TLC

\* ------------------------------------------------------------------ bounds
\* Size of the modelled heap: kcalloc fails once every table id is in use.
MaxTables == 2
\* Number of hwmon device handles the host can hand out at once.
MaxDevs == 2

\* --------------------------------------------------------------- constants
NULL == 0
n_attrs == 3
ENOMEM == 12
EEXIST == 17
EPERM == 1

TXGBE_HWMON_TYPE_TEMP == "TEMP"
TXGBE_HWMON_TYPE_ALARMTHRESH == "ALARMTHRESH"
TXGBE_HWMON_TYPE_DALARMTHRESH == "DALARMTHRESH"

\* The three attribute names txgbe_add_hwmon_attr formats with snprintf.
Names == {"temp0_input", "temp0_alarmthresh", "temp0_dalarmthresh"}

\* name written into the slot for a type; "" for the default: branch
AttrName(type) ==
    CASE type = TXGBE_HWMON_TYPE_TEMP -> "temp0_input"
      [] type = TXGBE_HWMON_TYPE_ALARMTHRESH -> "temp0_alarmthresh"
      [] type = TXGBE_HWMON_TYPE_DALARMTHRESH -> "temp0_dalarmthresh"
      [] OTHER -> ""

\* Errors (negative errno) hwmon_device_register can hand back as ERR_PTR.
RegisterErrs == {-ENOMEM, -22}
\* Errors device_create_file can return besides -EEXIST.
CreateErrs == {-ENOMEM, -2}

TableIds == 1..MaxTables
DevIds == 1..MaxDevs
Slots == 0..(n_attrs - 1)

\* Values the fields of the sensor record (16-bit signed, whole degrees) take
\* in the model: one below zero, zero and two above.
SensorValues == {-5, 0, 45, 50}

\* no accessor has run yet
NoRead ==
    [name |-> "", at |-> "", valid |-> TRUE, refreshes |-> 0, hw |-> 0, out |-> <<>>,
     last |-> [name |-> "", out |-> <<>>]]

\* ------------------------------------------------- C int bitwise OR (rc |=)
RECURSIVE BitAndNat(_, _)
BitAndNat(a, b) ==
    IF a = 0 \/ b = 0 THEN 0
    ELSE (a % 2) * (b % 2) + 2 * BitAndNat(a \div 2, b \div 2)

BitNot(a) == -a - 1

\* two's-complement AND on integers of either sign
BitAnd(a, b) ==
    CASE a >= 0 /\ b >= 0 -> BitAndNat(a, b)
      [] a >= 0 /\ b < 0 -> a - BitAndNat(a, BitNot(b))
      [] a < 0 /\ b >= 0 -> b - BitAndNat(b, BitNot(a))
      [] OTHER -> BitNot(BitNot(a) + BitNot(b) - BitAndNat(BitNot(a), BitNot(b)))

BitOr(a, b) == BitNot(BitAnd(BitNot(a), BitNot(b)))

\* ------------------------------------------------------------------- state
VARIABLES
    hasSensor,   \* adapter property: init_thermal_sensor_thresh returns 0
    hwmon_list,  \* adapter->txgbe_hwmon_buff.hwmon_list: NULL or a table id
    n_hwmon,     \* adapter->txgbe_hwmon_buff.n_hwmon
    device,      \* adapter->txgbe_hwmon_buff.device: NULL or a hwmon handle
    allocated,   \* heap: table ids kcalloc'ed and not yet kfree'd
    tables,      \* heap contents: tables[t][i] = hwmon_list[i].name of table t
    hostDevs,    \* hwmon class: device handles currently registered
    files,       \* sysfs namespace of the PCI device: name -> file entry
    pc,          \* position of the running call ("idle" between calls)
    adapter,     \* the adapter argument of the running call: "adapter" or "NULL"
    i,           \* loop index of txgbe_sysfs_del_adapter
    rc,          \* local rc of txgbe_sysfs_init
    ret,         \* value returned by the last completed txgbe_sysfs_init
    op,          \* the call running or last completed: "none", "init", "exit"
    pre,         \* hwmon_buff, files and resources as the current call found them
    log,         \* calls into HAL, heap and host made by the current call
    prev,        \* the call completed before the current one, and what it found
    doubleFree,  \* kfree was handed a table that is not allocated
    doubleUnreg, \* hwmon_device_unregister was handed an unregistered handle
    sensor,      \* adapter->hw.mac.thermal_sensor_data.sensor
    hwTemp,      \* the reading get_thermal_sensor_data delivers
    rd           \* the last run of a read accessor (show callback)

vars == <<hasSensor, hwmon_list, n_hwmon, device, allocated, tables, hostDevs,
          files, pc, adapter, i, rc, ret, op, pre, log, prev, doubleFree, doubleUnreg,
          sensor, hwTemp, rd>>

adapterVars == <<hwmon_list, n_hwmon, device>>
heapVars == <<allocated, tables, doubleFree>>
hostVars == <<hostDevs, files, doubleUnreg>>
sensorVars == <<sensor, hwTemp, rd>>

\* A sysfs entry: absent, or present and backed by the dev_attr in slot `slot`
\* of table `table`.  table = NULL marks a file this adapter instance did not
\* create (left on the PCI device by an earlier driver instance).
NoFile == [present |-> FALSE, table |-> NULL, slot |-> 0]
StaleFile == [present |-> TRUE, table |-> NULL, slot |-> 0]
FileOf(t, s) == [present |-> TRUE, table |-> t, slot |-> s]

ZeroTable == [s \in Slots |-> ""]

Present(f) == {nm \in Names : f[nm].present}
\* files created by this adapter instance (through its hwmon_list tables)
Owned(f) == {nm \in Names : f[nm].present /\ f[nm].table # NULL}

Event(c, nm, v) == [call |-> c, name |-> nm, val |-> v]

Snapshot ==
    [list |-> hwmon_list, n |-> n_hwmon, dev |-> device,
     present |-> Present(files), owned |-> Owned(files),
     allocated |-> allocated, hostDevs |-> hostDevs]

\* the state of an adapter on which txgbe_sysfs_init never ran
Pristine(s) ==
    /\ s.list = NULL /\ s.n = 0 /\ s.dev = NULL
    /\ s.owned = {} /\ s.allocated = {} /\ s.hostDevs = {}

\* what is remembered of a completed call when the next one starts
LastCall ==
    [op |-> op, adapter |-> adapter, pristine |-> Pristine(pre), ret |-> ret,
     acted |-> log # <<>>,
     failed |-> {log[k].name : k \in {j \in DOMAIN log :
                    log[j].call = "device_create_file" /\ log[j].val # 0}}]

\* ------------------------------------------------------------------- Init
\* The adapter structure is zero-allocated.  The PCI device outlives the
\* driver instance, so its sysfs directory may already hold files under the
\* three names.
Init ==
    /\ hasSensor \in BOOLEAN
    /\ hwmon_list = NULL
    /\ n_hwmon = 0
    /\ device = NULL
    /\ allocated = {}
    /\ tables = [t \in TableIds |-> ZeroTable]
    /\ hostDevs = {}
    /\ \E stale \in SUBSET Names :
          files = [nm \in Names |-> IF nm \in stale THEN StaleFile ELSE NoFile]
    /\ pc = "idle"
    /\ adapter = "adapter"
    /\ i = 0
    /\ rc = 0
    /\ ret = 0
    /\ op = "none"
    /\ pre = [list |-> NULL, n |-> 0, dev |-> NULL, present |-> {}, owned |-> {},
              allocated |-> {}, hostDevs |-> {}]
    /\ log = <<>>
    /\ prev = [op |-> "none", adapter |-> "adapter", pristine |-> FALSE,
               ret |-> 0, acted |-> FALSE, failed |-> {}]
    /\ doubleFree = FALSE
    /\ doubleUnreg = FALSE
    /\ hwTemp = 45
    /\ sensor = [temp |-> 0, alarm_thresh |-> 50, dalarm_thresh |-> 50]
    /\ rd = NoRead

\* ------------------------------------------------------- the environment
\* device_remove_file: removes the entry of that name if there is one
device_remove_file(f, nm) == [f EXCEPT ![nm] = NoFile]

\* device_create_file: -EEXIST when the name is taken, else 0 or an error
CreateOutcomes(f, nm) ==
    IF f[nm].present THEN {-EEXIST} ELSE {0} \cup CreateErrs

Min(S) == CHOOSE x \in S : \A y \in S : x <= y

\* kcalloc: NULL, or a zeroed block that is not in use
KcallocResults ==
    {NULL} \cup (IF TableIds \ allocated = {} THEN {} ELSE {Min(TableIds \ allocated)})

\* txgbe_hwmon_device_register: an ERR_PTR, or a handle that is not in use
RegisterResults ==
    RegisterErrs \cup (IF DevIds \ hostDevs = {} THEN {} ELSE {Min(DevIds \ hostDevs)})

\* mac.ops.init_thermal_sensor_thresh: 0 when the adapter has a thermal
\* sensor, non-zero when it has none
init_thermal_sensor_thresh == IF hasSensor THEN 0 ELSE 1

\* ------------------------------------------------------ txgbe_sysfs_init
\* entry of txgbe_sysfs_init(adapter); rc = 0
InitCall ==
    /\ pc = "idle"
    /\ \E a \in {"adapter", "NULL"} : adapter' = a
    /\ pc' = "init_entry"
    /\ op' = "init"
    /\ rc' = 0
    /\ prev' = LastCall
    /\ pre' = Snapshot
    /\ log' = <<>>
    /\ UNCHANGED <<hasSensor, sensorVars, adapterVars, heapVars, hostVars, i, ret>>

\* if (adapter == NULL) goto err;
InitEntry ==
    /\ pc = "init_entry"
    /\ pc' = IF adapter = "NULL" THEN "del_entry" ELSE "init_hal"
    /\ UNCHANGED <<hasSensor, sensorVars, adapterVars, heapVars, hostVars, adapter, i, rc,
                   ret, op, pre, log, prev>>

\* mutant: the result of init_thermal_sensor_thresh is ignored
InitThermalCheck_Ignored ==
    /\ pc = "init_hal"
    /\ log' = Append(log, Event("init_thermal_sensor_thresh", "", init_thermal_sensor_thresh))
    /\ pc' = "init_alloc"
    /\ UNCHANGED <<hasSensor, sensorVars, adapterVars, heapVars, hostVars, adapter, i, rc,
                   ret, op, pre, prev>>

\* mutant: the no-sensor path runs the teardown of the err label
InitThermalCheck_Unwinds ==
    /\ pc = "init_hal"
    /\ log' = Append(log, Event("init_thermal_sensor_thresh", "", init_thermal_sensor_thresh))
    /\ pc' = IF init_thermal_sensor_thresh # 0 THEN "del_entry" ELSE "init_alloc"
    /\ UNCHANGED <<hasSensor, sensorVars, adapterVars, heapVars, hostVars, adapter, i, rc,
                   ret, op, pre, prev>>

\* if (TCALL(&adapter->hw, mac.ops.init_thermal_sensor_thresh)) goto no_thermal;
InitThermalCheck ==
    /\ pc = "init_hal"
    /\ log' = Append(log, Event("init_thermal_sensor_thresh", "", init_thermal_sensor_thresh))
    /\ pc' = IF init_thermal_sensor_thresh # 0 THEN "ret" ELSE "init_alloc"
    /\ UNCHANGED <<hasSensor, sensorVars, adapterVars, heapVars, hostVars, adapter, i, rc,
                   ret, op, pre, prev>>

\* device = NULL; n_hwmon = 0; hwmon_list = kcalloc(...); if (!hwmon_list) ...
InitAlloc ==
    /\ pc = "init_alloc"
    /\ device' = NULL
    /\ n_hwmon' = 0
    /\ \E t \in KcallocResults :
          /\ hwmon_list' = t
          /\ log' = Append(log, Event("kcalloc", "", t))
          /\ IF t = NULL
             THEN /\ rc' = -ENOMEM
                  /\ pc' = "del_entry"
                  /\ UNCHANGED <<allocated, tables>>
             ELSE /\ allocated' = allocated \cup {t}
                  /\ tables' = [tables EXCEPT ![t] = ZeroTable]
                  /\ pc' = "init_register"
                  /\ UNCHANGED rc
    /\ UNCHANGED <<hasSensor, sensorVars, doubleFree, hostVars, adapter, i, ret, op, pre, prev>>

\* mutant: a failed registration returns the error without going to err:
InitRegister_NoUnwind ==
    /\ pc = "init_register"
    /\ \E d \in RegisterResults :
          /\ log' = Append(log, Event("hwmon_device_register", "", d))
          /\ IF d < 0
             THEN /\ rc' = d
                  /\ device' = NULL
                  /\ pc' = "ret"
                  /\ UNCHANGED hostDevs
             ELSE /\ device' = d
                  /\ hostDevs' = hostDevs \cup {d}
                  /\ pc' = "init_add_temp"
                  /\ UNCHANGED rc
    /\ UNCHANGED <<hasSensor, sensorVars, hwmon_list, n_hwmon, heapVars, files, doubleUnreg,
                   adapter, i, ret, op, pre, prev>>

\* device = txgbe_hwmon_device_register(adapter); if (IS_ERR(device)) ...
InitRegister ==
    /\ pc = "init_register"
    /\ \E d \in RegisterResults :
          /\ log' = Append(log, Event("hwmon_device_register", "", d))
          /\ IF d < 0
             THEN /\ rc' = d
                  /\ device' = NULL
                  /\ pc' = "del_entry"
                  /\ UNCHANGED hostDevs
             ELSE /\ device' = d
                  /\ hostDevs' = hostDevs \cup {d}
                  /\ pc' = "init_add_temp"
                  /\ UNCHANGED rc
    /\ UNCHANGED <<hasSensor, sensorVars, hwmon_list, n_hwmon, heapVars, files, doubleUnreg,
                   adapter, i, ret, op, pre, prev>>

\* mutant: no device_remove_file before device_create_file
txgbe_add_hwmon_attr_NoRemove(type, r) ==
    LET n_attr == n_hwmon
        nm == AttrName(type)
    IN  IF nm = ""
        THEN /\ r = -EPERM
             /\ UNCHANGED <<tables, files, n_hwmon, log>>
        ELSE /\ tables' = [tables EXCEPT ![hwmon_list][n_attr] = nm]
             /\ r \in CreateOutcomes(files, nm)
             /\ files' = IF r = 0
                         THEN [files EXCEPT ![nm] = FileOf(hwmon_list, n_attr)]
                         ELSE files
             /\ n_hwmon' = IF r = 0 THEN n_hwmon + 1 ELSE n_hwmon
             /\ log' = Append(log, Event("device_create_file", nm, r))

\* mutant: n_hwmon is not incremented after a successful device_create_file
txgbe_add_hwmon_attr_NoCount(type, r) ==
    LET n_attr == n_hwmon
        nm == AttrName(type)
        removed == device_remove_file(files, nm)
    IN  IF nm = ""
        THEN /\ r = -EPERM
             /\ UNCHANGED <<tables, files, n_hwmon, log>>
        ELSE /\ tables' = [tables EXCEPT ![hwmon_list][n_attr] = nm]
             /\ r \in CreateOutcomes(removed, nm)
             /\ files' = IF r = 0
                         THEN [removed EXCEPT ![nm] = FileOf(hwmon_list, n_attr)]
                         ELSE removed
             /\ n_hwmon' = n_hwmon
             /\ log' = log \o <<Event("device_remove_file", nm, 0),
                                Event("device_create_file", nm, r)>>

\* txgbe_add_hwmon_attr(adapter, type), returning r
txgbe_add_hwmon_attr(type, r) ==
    LET n_attr == n_hwmon
        nm == AttrName(type)
        removed == device_remove_file(files, nm)
    IN  IF nm = ""
        THEN /\ r = -EPERM
             /\ UNCHANGED <<tables, files, n_hwmon, log>>
        ELSE /\ tables' = [tables EXCEPT ![hwmon_list][n_attr] = nm]
             /\ r \in CreateOutcomes(removed, nm)
             /\ files' = IF r = 0
                         THEN [removed EXCEPT ![nm] = FileOf(hwmon_list, n_attr)]
                         ELSE removed
             /\ n_hwmon' = IF r = 0 THEN n_hwmon + 1 ELSE n_hwmon
             /\ log' = log \o <<Event("device_remove_file", nm, 0),
                                Event("device_create_file", nm, r)>>

AddRcs == {0, -EEXIST, -EPERM} \cup CreateErrs

\* rc = txgbe_add_hwmon_attr(adapter, TXGBE_HWMON_TYPE_TEMP);
InitAddTemp ==
    /\ pc = "init_add_temp"
    /\ \E r \in AddRcs :
          /\ txgbe_add_hwmon_attr(TXGBE_HWMON_TYPE_TEMP, r)
          /\ rc' = r
    /\ pc' = "init_add_alarm"
    /\ UNCHANGED <<hasSensor, sensorVars, hwmon_list, device, allocated, doubleFree, hostDevs,
                   doubleUnreg, adapter, i, ret, op, pre, prev>>

\* mutant: rc = instead of rc |= for the second attribute
InitAddAlarm_Overwrites ==
    /\ pc = "init_add_alarm"
    /\ \E r \in AddRcs :
          /\ txgbe_add_hwmon_attr(TXGBE_HWMON_TYPE_ALARMTHRESH, r)
          /\ rc' = r
    /\ pc' = "init_add_dalarm"
    /\ UNCHANGED <<hasSensor, sensorVars, hwmon_list, device, allocated, doubleFree, hostDevs,
                   doubleUnreg, adapter, i, ret, op, pre, prev>>

\* rc |= txgbe_add_hwmon_attr(adapter, TXGBE_HWMON_TYPE_ALARMTHRESH);
InitAddAlarm ==
    /\ pc = "init_add_alarm"
    /\ \E r \in AddRcs :
          /\ txgbe_add_hwmon_attr(TXGBE_HWMON_TYPE_ALARMTHRESH, r)
          /\ rc' = BitOr(rc, r)
    /\ pc' = "init_add_dalarm"
    /\ UNCHANGED <<hasSensor, sensorVars, hwmon_list, device, allocated, doubleFree, hostDevs,
                   doubleUnreg, adapter, i, ret, op, pre, prev>>

\* rc |= txgbe_add_hwmon_attr(adapter, TXGBE_HWMON_TYPE_DALARMTHRESH);
InitAddDalarm ==
    /\ pc = "init_add_dalarm"
    /\ \E r \in AddRcs :
          /\ txgbe_add_hwmon_attr(TXGBE_HWMON_TYPE_DALARMTHRESH, r)
          /\ rc' = BitOr(rc, r)
    /\ pc' = "init_check"
    /\ UNCHANGED <<hasSensor, sensorVars, hwmon_list, device, allocated, doubleFree, hostDevs,
                   doubleUnreg, adapter, i, ret, op, pre, prev>>

\* if (rc) goto err;  else fall through no_thermal: to exit:
InitCheck ==
    /\ pc = "init_check"
    /\ pc' = IF rc # 0 THEN "del_entry" ELSE "ret"
    /\ UNCHANGED <<hasSensor, sensorVars, adapterVars, heapVars, hostVars, adapter, i, rc,
                   ret, op, pre, log, prev>>

\* exit: return rc;
InitReturn ==
    /\ pc = "ret"
    /\ op = "init"
    /\ ret' = rc
    /\ pc' = "idle"
    /\ UNCHANGED <<hasSensor, sensorVars, adapterVars, heapVars, hostVars, adapter, i, rc,
                   op, pre, log, prev>>

\* ------------------------------------------------------ txgbe_sysfs_exit
\* entry of txgbe_sysfs_exit(adapter), which calls txgbe_sysfs_del_adapter
ExitCall ==
    /\ pc = "idle"
    /\ \E a \in {"adapter", "NULL"} : adapter' = a
    /\ pc' = "del_entry"
    /\ op' = "exit"
    /\ prev' = LastCall
    /\ pre' = Snapshot
    /\ log' = <<>>
    /\ UNCHANGED <<hasSensor, sensorVars, adapterVars, heapVars, hostVars, i, rc, ret>>

\* txgbe_sysfs_exit returns (void)
ExitReturn ==
    /\ pc = "ret"
    /\ op = "exit"
    /\ pc' = "idle"
    /\ UNCHANGED <<hasSensor, sensorVars, adapterVars, heapVars, hostVars, adapter, i, rc,
                   ret, op, pre, log, prev>>

\* ----------------------------------------------- txgbe_sysfs_del_adapter
\* mutant: the table is freed without walking the live prefix first
DelEntry_SkipsLoop ==
    /\ pc = "del_entry"
    /\ IF adapter = "NULL"
       THEN pc' = "ret" /\ UNCHANGED i
       ELSE IF hwmon_list # NULL
            THEN pc' = "del_loop" /\ i' = n_hwmon
            ELSE pc' = "del_device" /\ UNCHANGED i
    /\ UNCHANGED <<hasSensor, sensorVars, adapterVars, heapVars, hostVars, adapter, rc,
                   ret, op, pre, log, prev>>

\* mutant: the teardown does not test the adapter for NULL
DelEntry_NoNullCheck ==
    /\ pc = "del_entry"
    /\ IF hwmon_list # NULL
       THEN pc' = "del_loop" /\ i' = 0
       ELSE pc' = "del_device" /\ UNCHANGED i
    /\ UNCHANGED <<hasSensor, sensorVars, adapterVars, heapVars, hostVars, adapter, rc,
                   ret, op, pre, log, prev>>

\* if (adapter == NULL) return;  if (hwmon_list) { i = 0; ...
DelEntry ==
    /\ pc = "del_entry"
    /\ IF adapter = "NULL"
       THEN pc' = "ret" /\ UNCHANGED i
       ELSE IF hwmon_list # NULL
            THEN pc' = "del_loop" /\ i' = 0
            ELSE pc' = "del_device" /\ UNCHANGED i
    /\ UNCHANGED <<hasSensor, sensorVars, adapterVars, heapVars, hostVars, adapter, rc,
                   ret, op, pre, log, prev>>

\* mutant: the loop walks the live prefix without removing the files
DelRemoveFile_NoRemove ==
    /\ pc = "del_loop"
    /\ i < n_hwmon
    /\ i' = i + 1
    /\ UNCHANGED <<hasSensor, sensorVars, adapterVars, heapVars, hostVars, pc, adapter, rc,
                   ret, op, pre, log, prev>>

\* for (i = 0; i < n_hwmon; i++) device_remove_file(..., &hwmon_list[i].dev_attr);
DelRemoveFile ==
    /\ pc = "del_loop"
    /\ i < n_hwmon
    /\ LET nm == tables[hwmon_list][i]
       IN  /\ files' = device_remove_file(files, nm)
           /\ log' = Append(log, Event("device_remove_file", nm, 0))
    /\ i' = i + 1
    /\ UNCHANGED <<hasSensor, sensorVars, adapterVars, heapVars, hostDevs, doubleUnreg, pc,
                   adapter, rc, ret, op, pre, prev>>

\* mutant: hwmon_list is not reset to NULL after kfree
DelFree_KeepsPointer ==
    /\ pc = "del_loop"
    /\ ~(i < n_hwmon)
    /\ doubleFree' = (doubleFree \/ hwmon_list \notin allocated)
    /\ allocated' = allocated \ {hwmon_list}
    /\ tables' = [tables EXCEPT ![hwmon_list] = ZeroTable]
    /\ log' = Append(log, Event("kfree", "", hwmon_list))
    /\ pc' = "del_device"
    /\ UNCHANGED <<hasSensor, sensorVars, adapterVars, hostVars, adapter, i, rc, ret,
                   op, pre, prev>>

\* kfree(hwmon_list); hwmon_list = NULL;
DelFree ==
    /\ pc = "del_loop"
    /\ ~(i < n_hwmon)
    /\ doubleFree' = (doubleFree \/ hwmon_list \notin allocated)
    /\ allocated' = allocated \ {hwmon_list}
    /\ tables' = [tables EXCEPT ![hwmon_list] = ZeroTable]
    /\ log' = Append(log, Event("kfree", "", hwmon_list))
    /\ hwmon_list' = NULL
    /\ pc' = "del_device"
    /\ UNCHANGED <<hasSensor, sensorVars, n_hwmon, device, hostVars, adapter, i, rc, ret,
                   op, pre, prev>>

\* mutant: device is not reset to NULL after hwmon_device_unregister
DelUnregister_KeepsDevice ==
    /\ pc = "del_device"
    /\ IF device # NULL
       THEN /\ doubleUnreg' = (doubleUnreg \/ device \notin hostDevs)
            /\ hostDevs' = hostDevs \ {device}
            /\ log' = Append(log, Event("hwmon_device_unregister", "", device))
       ELSE UNCHANGED <<doubleUnreg, hostDevs, log>>
    /\ pc' = "del_count"
    /\ UNCHANGED <<hasSensor, sensorVars, adapterVars, heapVars, files, adapter, i,
                   rc, ret, op, pre, prev>>

\* mutant: device is cleared without hwmon_device_unregister
DelUnregister_NoUnregister ==
    /\ pc = "del_device"
    /\ device' = NULL
    /\ pc' = "del_count"
    /\ UNCHANGED <<hasSensor, sensorVars, hwmon_list, n_hwmon, heapVars, hostVars, adapter, i,
                   rc, ret, op, pre, log, prev>>

\* if (!IS_ERR_OR_NULL(device)) hwmon_device_unregister(device);  device = NULL;
DelUnregister ==
    /\ pc = "del_device"
    /\ IF device # NULL
       THEN /\ doubleUnreg' = (doubleUnreg \/ device \notin hostDevs)
            /\ hostDevs' = hostDevs \ {device}
            /\ log' = Append(log, Event("hwmon_device_unregister", "", device))
       ELSE UNCHANGED <<doubleUnreg, hostDevs, log>>
    /\ device' = NULL
    /\ pc' = "del_count"
    /\ UNCHANGED <<hasSensor, sensorVars, hwmon_list, n_hwmon, heapVars, files, adapter, i,
                   rc, ret, op, pre, prev>>

\* n_hwmon = 0;  and return to the caller
DelClearCount ==
    /\ pc = "del_count"
    /\ n_hwmon' = 0
    /\ pc' = "ret"
    /\ UNCHANGED <<hasSensor, sensorVars, hwmon_list, device, heapVars, hostVars, adapter, i,
                   rc, ret, op, pre, log, prev>>

\* ------------------------------------------------------- read accessors
\* decimal digits of a natural number, most significant first
DigitChars == <<"0", "1", "2", "3", "4", "5", "6", "7", "8", "9">>
RECURSIVE Digits(_)
Digits(n) ==
    IF n < 10 THEN <<DigitChars[n + 1]>>
    ELSE Append(Digits(n \div 10), DigitChars[(n % 10) + 1])

\* the low six decimal digits of n, zero-padded
RECURSIVE PadDigits(_, _)
PadDigits(n, width) ==
    IF width = 0 THEN <<>>
    ELSE Append(PadDigits(n \div 10, width - 1), DigitChars[(n % 10) + 1])

\* unsigned int value = field; value *= 1000;  -- the 32-bit pattern of the
\* product, kept as its two's-complement representative (a 16-bit field times
\* 1000 fits in 32 bits, so the pattern is that of field * 1000)
TimesThousandU32(field) == field * 1000

\* sprintf(buf, "%u\n", value): the 32-bit pattern printed as an unsigned
\* number.  A negative representative x stands for 2^32 + x = 4294967296 + x,
\* printed as its millions and its low six digits.
SprintfU(x) ==
    IF x >= 0
    THEN Append(Digits(x), "\n")
    ELSE LET y == 967296 + x
         IN  Append(Digits(4294 + (y \div 1000000)) \o PadDigits(y % 1000000, 6), "\n")

\* mac.ops.get_thermal_sensor_data: stores the hardware's reading in sensor.temp
get_thermal_sensor_data(s) == [s EXCEPT !.temp = hwTemp]

\* where the lifecycle calls stand: inside txgbe_sysfs_del_adapter, elsewhere
\* inside txgbe_sysfs_init, or between calls
Phase ==
    IF pc \in {"del_entry", "del_loop", "del_device", "del_count"} THEN "teardown"
    ELSE IF pc \in {"idle", "ret"} THEN "between"
    ELSE "init"

\* what is recorded of one accessor run for the file nm
ReadRecord(nm, valid, refreshes, out) ==
    [name |-> nm, at |-> Phase, valid |-> valid, refreshes |-> refreshes,
     hw |-> hwTemp, out |-> out, last |-> [name |-> rd.name, out |-> rd.out]]

\* mutant: the temperature accessor prints the record without refreshing it
txgbe_hwmon_show_temp_NoRefresh(nm, valid) ==
    /\ sensor' = sensor
    /\ rd' = ReadRecord(nm, valid, 0, SprintfU(TimesThousandU32(sensor.temp)))

\* txgbe_hwmon_show_temp, run for a read of the file nm
txgbe_hwmon_show_temp(nm, valid) ==
    /\ sensor' = get_thermal_sensor_data(sensor)
    /\ rd' = ReadRecord(nm, valid, 1, SprintfU(TimesThousandU32(sensor'.temp)))

\* txgbe_hwmon_show_alarmthresh, run for a read of the file nm
txgbe_hwmon_show_alarmthresh(nm, valid) ==
    /\ sensor' = sensor
    /\ rd' = ReadRecord(nm, valid, 0, SprintfU(TimesThousandU32(sensor.alarm_thresh)))

\* txgbe_hwmon_show_dalarmthresh, run for a read of the file nm
txgbe_hwmon_show_dalarmthresh(nm, valid) ==
    /\ sensor' = sensor
    /\ rd' = ReadRecord(nm, valid, 0, SprintfU(TimesThousandU32(sensor.dalarm_thresh)))

\* The host dispatches a read of a file this registry created: it calls the
\* show pointer of the dev_attr the file was created with (container_of gives
\* the slot).  The host dispatches no read for a removed file.  If the slot's
\* table has been freed or the slot has been rewritten for another name, the
\* callback that runs is not determined.
ReadFile(nm) ==
    /\ files[nm].present
    /\ files[nm].table # NULL
    /\ LET f == files[nm]
           valid == f.table \in allocated /\ tables[f.table][f.slot] = nm
       IN  \E run \in (IF valid THEN {nm} ELSE Names) :
              CASE run = "temp0_input" -> txgbe_hwmon_show_temp(nm, valid)
                [] run = "temp0_alarmthresh" -> txgbe_hwmon_show_alarmthresh(nm, valid)
                [] OTHER -> txgbe_hwmon_show_dalarmthresh(nm, valid)
    /\ UNCHANGED <<hasSensor, adapterVars, heapVars, hostVars, pc, adapter, i, rc,
                   ret, op, pre, log, prev, hwTemp>>

\* the reading the HAL delivers changes
HalChange ==
    /\ \E t \in SensorValues \ {hwTemp} : hwTemp' = t
    /\ UNCHANGED <<hasSensor, adapterVars, heapVars, hostVars, pc, adapter, i, rc,
                   ret, op, pre, log, prev, sensor, rd>>

\* ------------------------------------------------------------------- Spec
Next ==
    \/ InitCall
    \/ InitEntry
    \/ InitThermalCheck
    \/ InitAlloc
    \/ InitRegister
    \/ InitAddTemp
    \/ InitAddAlarm
    \/ InitAddDalarm
    \/ InitCheck
    \/ InitReturn
    \/ ExitCall
    \/ ExitReturn
    \/ DelEntry
    \/ DelRemoveFile
    \/ DelFree
    \/ DelUnregister
    \/ DelClearCount
    \/ \E nm \in Names : ReadFile(nm)

Spec == Init /\ [][Next]_vars

\* ------------------------------ an adapter whose HAL answer may change
\* between two calls the HAL stops reporting a thermal sensor
SensorLost ==
    /\ pc = "idle"
    /\ hasSensor
    /\ hasSensor' = FALSE
    /\ UNCHANGED <<sensorVars, adapterVars, heapVars, hostVars, pc, adapter, i, rc,
                   ret, op, pre, log, prev>>

NextHal ==
    \/ Next
    \/ SensorLost

SpecHal == Init /\ [][NextHal]_vars

\* ------------------------------------------- reads of an active registry
\* the table of a registry populated by txgbe_sysfs_init
ActiveTable ==
    [s \in Slots |-> CASE s = 0 -> "temp0_input"
                       [] s = 1 -> "temp0_alarmthresh"
                       [] OTHER -> "temp0_dalarmthresh"]
SlotOf(nm) == CHOOSE s \in Slots : ActiveTable[s] = nm

\* the adapter after its first txgbe_sysfs_init succeeded and returned
ActiveLifecycle ==
    /\ hasSensor = TRUE
    /\ hwmon_list = 1
    /\ n_hwmon = n_attrs
    /\ device = 1
    /\ allocated = {1}
    /\ tables = [t \in TableIds |-> IF t = 1 THEN ActiveTable ELSE ZeroTable]
    /\ hostDevs = {1}
    /\ files = [nm \in Names |-> FileOf(1, SlotOf(nm))]
    /\ pc = "idle"
    /\ adapter = "adapter"
    /\ i = 0
    /\ rc = 0
    /\ ret = 0
    /\ op = "init"
    /\ pre = [list |-> NULL, n |-> 0, dev |-> NULL, present |-> {}, owned |-> {},
              allocated |-> {}, hostDevs |-> {}]
    /\ log = <<Event("init_thermal_sensor_thresh", "", 0),
               Event("kcalloc", "", 1),
               Event("hwmon_device_register", "", 1),
               Event("device_remove_file", "temp0_input", 0),
               Event("device_create_file", "temp0_input", 0),
               Event("device_remove_file", "temp0_alarmthresh", 0),
               Event("device_create_file", "temp0_alarmthresh", 0),
               Event("device_remove_file", "temp0_dalarmthresh", 0),
               Event("device_create_file", "temp0_dalarmthresh", 0)>>
    /\ prev = [op |-> "none", adapter |-> "adapter", pristine |-> TRUE,
               ret |-> 0, acted |-> FALSE, failed |-> {}]
    /\ doubleFree = FALSE
    /\ doubleUnreg = FALSE

\* an active registry whose sensor record and hardware hold any of the values
InitAccess ==
    /\ ActiveLifecycle
    /\ hwTemp \in SensorValues
    /\ sensor \in [temp : SensorValues, alarm_thresh : SensorValues,
                    dalarm_thresh : SensorValues]
    /\ rd = NoRead

NextAccess ==
    \/ \E nm \in Names : ReadFile(nm)
    \/ HalChange

SpecAccess == InitAccess /\ [][NextAccess]_vars

TypeOK ==
    /\ hasSensor \in BOOLEAN
    /\ hwmon_list \in {NULL} \cup TableIds
    /\ n_hwmon \in 0..n_attrs
    /\ device \in {NULL} \cup DevIds
    /\ allocated \subseteq TableIds
    /\ hostDevs \subseteq DevIds
    /\ Present(files) \subseteq Names
    /\ adapter \in {"adapter", "NULL"}
    /\ hwTemp \in SensorValues
    /\ sensor \in [temp : SensorValues, alarm_thresh : SensorValues,
                    dalarm_thresh : SensorValues]
    /\ rd.name \in Names \cup {""}
    /\ rd.refreshes \in {0, 1}

\* ----------------------------------------------------- reading the log
LogIdx == DOMAIN log
EventsOf(c) == {k \in LogIdx : log[k].call = c}

\* a call of txgbe_sysfs_init / txgbe_sysfs_exit on the adapter has returned
InitDone == pc = "idle" /\ op = "init" /\ adapter = "adapter"
ExitDone == pc = "idle" /\ op = "exit" /\ adapter = "adapter"

\* outcomes of the steps of the current call
NoSensorReported ==
    \E k \in EventsOf("init_thermal_sensor_thresh") : log[k].val # 0
SensorReported ==
    \E k \in EventsOf("init_thermal_sensor_thresh") : log[k].val = 0
AllocFailed == \E k \in EventsOf("kcalloc") : log[k].val = NULL
AllocatedNow == {log[k].val : k \in {j \in EventsOf("kcalloc") : log[j].val # NULL}}
RegisterFailed == \E k \in EventsOf("hwmon_device_register") : log[k].val < 0
RegisteredNow ==
    {log[k].val : k \in {j \in EventsOf("hwmon_device_register") : log[j].val > 0}}
\* names whose device_create_file succeeded / failed in the current call
CreatedOk == {log[k].name : k \in {j \in EventsOf("device_create_file") : log[j].val = 0}}
CreateFailed == {log[k].name : k \in {j \in EventsOf("device_create_file") : log[j].val # 0}}

\* ------------------------------------------------------------------ claims

\* C1: if any of the three per-kind registrations fails (whatever subset),
\* then when txgbe_sysfs_init has returned it returned an error, n_hwmon = 0,
\* device = NULL, the table allocated by the call is freed, the hwmon device
\* it registered is unregistered, and no file created by the call remains.
C1_FullUnwind ==
    (InitDone /\ CreateFailed # {}) =>
        /\ ret # 0
        /\ n_hwmon = 0
        /\ device = NULL
        /\ hwmon_list = NULL
        /\ AllocatedNow \cap allocated = {}
        /\ RegisteredNow \cap hostDevs = {}
        /\ CreatedOk \cap Present(files) = {}

\* the first registration failed and the two later ones succeeded, so the
\* live prefix held temp0_alarmthresh and temp0_dalarmthresh in slots 0 and 1
C1_Witness ==
    /\ InitDone
    /\ CreateFailed = {"temp0_input"}
    /\ CreatedOk = {"temp0_alarmthresh", "temp0_dalarmthresh"}
    /\ ret # 0

\* C2: with a sensor, a table, a hwmon device and three successful
\* device_create_file calls, txgbe_sysfs_init returns 0 with n_hwmon = 3,
\* device set and registered, and exactly the three named files created by
\* this call and backed by slots 0, 1, 2 of its table.
C2_Active ==
    (InitDone /\ SensorReported /\ ~AllocFailed /\ ~RegisterFailed /\ CreateFailed = {}) =>
        /\ ret = 0
        /\ n_hwmon = 3
        /\ device # NULL /\ device \in hostDevs
        /\ hwmon_list # NULL /\ hwmon_list \in allocated
        /\ CreatedOk = Names
        /\ files["temp0_input"] = FileOf(hwmon_list, 0)
        /\ files["temp0_alarmthresh"] = FileOf(hwmon_list, 1)
        /\ files["temp0_dalarmthresh"] = FileOf(hwmon_list, 2)

C2_Witness ==
    /\ InitDone /\ SensorReported /\ ~AllocFailed /\ ~RegisterFailed
    /\ CreateFailed = {} /\ CreatedOk = Names
    /\ n_hwmon = 3

\* C3: when init_thermal_sensor_thresh reports no sensor, txgbe_sysfs_init
\* returns 0, n_hwmon = 0, device = NULL, hwmon_list = NULL, and the call made
\* no kcalloc, no hwmon registration and no file creation or removal.
C3_NoSensor ==
    (InitDone /\ NoSensorReported) =>
        /\ ret = 0
        /\ n_hwmon = 0
        /\ device = NULL
        /\ hwmon_list = NULL
        /\ allocated = {} /\ hostDevs = {}
        /\ Len(log) = 1

C3_Witness ==
    /\ InitDone /\ NoSensorReported
    /\ ret = 0 /\ Len(log) = 1

\* C4 (the claim as stated): whenever txgbe_sysfs_exit has returned, every
\* table that was allocated has been freed and every hwmon device that was
\* registered has been unregistered.
C4_NoLeakAfterExit ==
    ExitDone => (allocated = {} /\ hostDevs = {})

\* C5: no table is freed twice, no hwmon handle is unregistered twice, and
\* device_create_file is never called for a name that is still present
\* (the host would answer -EEXIST).
C5_NoDoubleFreeOrRegister ==
    /\ ~doubleFree
    /\ ~doubleUnreg
    /\ \A k \in EventsOf("device_create_file") : log[k].val # -EEXIST

\* a second txgbe_sysfs_init ran over an Active registry whose three files
\* were present and registered all three names again; later calls follow
C5_Witness ==
    /\ InitDone
    /\ prev.op = "init" /\ prev.adapter = "adapter"
    /\ pre.owned = Names /\ pre.n = 3
    /\ CreatedOk = Names

\* the registry as a call found it holds nothing
PreNull == pre.list = NULL /\ pre.n = 0 /\ pre.dev = NULL

\* the call on the adapter that came right before the current one
PrevWas(o) == prev.op = o /\ prev.adapter = "adapter"

\* C6: txgbe_sysfs_exit always leaves n_hwmon = 0 and device = NULL, never
\* double-frees or double-unregisters, and when it is redundant (right after
\* another exit, on a never-initialized registry, after an init that found no
\* sensor, or on any registry with NULL table, zero count and NULL device) it
\* makes no device_remove_file, hwmon_device_unregister or kfree call.
C6_ExitIdempotent ==
    ExitDone =>
        /\ n_hwmon = 0 /\ device = NULL /\ hwmon_list = NULL
        /\ ~doubleFree /\ ~doubleUnreg
        /\ (PrevWas("exit") \/ prev.op = "none" \/ PreNull
              \/ (PrevWas("init") /\ init_thermal_sensor_thresh # 0))
           => log = <<>>

\* a second exit right after an exit that tore an Active registry down
C6_Witness ==
    /\ ExitDone
    /\ PrevWas("exit") /\ prev.acted /\ ~prev.pristine
    /\ log = <<>>

\* C7: txgbe_sysfs_init on a never-initialized registry followed immediately by
\* txgbe_sysfs_exit leaves the registry as if never initialized: NULL table,
\* zero count, NULL device, no file of this registry, no table allocated and
\* no hwmon device registered -- whatever the init call's outcome was.
C7_RoundTrip ==
    (ExitDone /\ PrevWas("init") /\ prev.pristine) => Pristine(Snapshot)

\* the init of the round trip reached Active and the exit tore it down
C7_Witness ==
    /\ ExitDone /\ PrevWas("init") /\ prev.pristine
    /\ prev.ret = 0 /\ pre.n = 3 /\ pre.owned = Names
    /\ Pristine(Snapshot)

\* C8: device_create_file never answers -EEXIST, whatever files the namespace
\* held when txgbe_sysfs_init started; so when the table and the hwmon device
\* were obtained and the host refuses no creation for another reason, init
\* returns 0 with n_hwmon = 3.
C8_NoEexistOnStale ==
    /\ (op = "init" => \A k \in EventsOf("device_create_file") : log[k].val # -EEXIST)
    /\ (InitDone /\ RegisteredNow # {}
          /\ (\A k \in EventsOf("device_create_file") : log[k].val \notin CreateErrs))
       => (ret = 0 /\ n_hwmon = 3 /\ Owned(files) = Names)

\* all three names were held by files of an earlier instance when init started
C8_Witness ==
    /\ InitDone
    /\ pre.present = Names /\ pre.owned = {}
    /\ ret = 0 /\ n_hwmon = 3 /\ Owned(files) = Names

\* C9 (the claim as stated): after any txgbe_sysfs_init that returned an error
\* none of the three files exists.
C9_NoFilesAfterAnyError ==
    (InitDone /\ ret # 0) => Present(files) = {}

\* C9 (amended): after a txgbe_sysfs_init that returned an error from the
\* per-kind registrations none of the three files exists, stale ones included;
\* after one that failed at kcalloc or at the hwmon registration the namespace
\* holds exactly the files it held before the call.
C9_NoFilesAfterPopulateError ==
    /\ (InitDone /\ ret # 0 /\ CreateFailed # {}) => Present(files) = {}
    /\ (InitDone /\ ret # 0 /\ (AllocFailed \/ RegisterFailed))
       => (Present(files) = pre.present /\ EventsOf("device_remove_file") = {})

\* stale files under all three names, one registration failed, nothing remains
C9_Witness ==
    /\ InitDone /\ ret # 0
    /\ pre.present = Names
    /\ CreateFailed = {"temp0_alarmthresh"}
    /\ Present(files) = {}

\* C10: when kcalloc or the hwmon registration fails, txgbe_sysfs_init returns
\* that error with hwmon_list = NULL, n_hwmon = 0, device = NULL; the table it
\* allocated (if any) was freed exactly once, and it called neither
\* device_create_file nor device_remove_file.
C10_EarlyFailureUnwound ==
    (InitDone /\ (AllocFailed \/ RegisterFailed)) =>
        /\ ret # 0
        /\ AllocFailed => (ret = -ENOMEM /\ EventsOf("kfree") = {})
        /\ RegisterFailed =>
              /\ \E k \in EventsOf("hwmon_device_register") : ret = log[k].val
              /\ Cardinality(EventsOf("kfree")) = 1
              /\ \A k \in EventsOf("kfree") : log[k].val \in AllocatedNow
        /\ hwmon_list = NULL /\ n_hwmon = 0 /\ device = NULL
        /\ AllocatedNow \cap allocated = {}
        /\ EventsOf("hwmon_device_unregister") = {}
        /\ EventsOf("device_create_file") = {}
        /\ EventsOf("device_remove_file") = {}

\* the hwmon registration failed after the table was allocated
C10_Witness ==
    /\ InitDone /\ RegisterFailed /\ AllocatedNow # {}
    /\ hwmon_list = NULL


\* points between calls and between the steps of txgbe_sysfs_init from the
\* hwmon registration to the final check of rc
AtBoundary ==
    pc \in {"idle", "init_register", "init_add_temp", "init_add_alarm",
            "init_add_dalarm", "init_check"}

\* names held by slots 0..n_hwmon-1 of the current table
LiveNames ==
    IF hwmon_list = NULL THEN {}
    ELSE {tables[hwmon_list][k] : k \in {s \in Slots : s < n_hwmon}}

\* C11 (the claim as stated): at every such point 0 <= n_hwmon <= 3, the files
\* this registry has registered are exactly those of hwmon_list[0..n_hwmon),
\* each backed by its slot, and no slot at index >= n_hwmon backs a file.
C11_LivePrefix ==
    AtBoundary =>
        /\ n_hwmon \in 0..n_attrs
        /\ Owned(files) = LiveNames
        /\ \A nm \in Owned(files) :
              /\ files[nm].table = hwmon_list
              /\ files[nm].slot < n_hwmon
              /\ tables[hwmon_list][files[nm].slot] = nm


\* the device_create_file calls of the current call, in order
IsCreate(e) == e.call = "device_create_file"
CreateSeq == SelectSeq(log, IsCreate)

\* C12: once the hwmon registration succeeded, txgbe_sysfs_init makes exactly
\* three registration attempts, for temp0_input, temp0_alarmthresh and
\* temp0_dalarmthresh in that order, whatever the earlier ones returned; rc is
\* the bitwise OR of the three results, and the call returns non-zero exactly
\* when at least one attempt failed.
C12_ThreeAttemptsOrAggregate ==
    LET attempted ==
            /\ Len(CreateSeq) = 3
            /\ CreateSeq[1].name = "temp0_input"
            /\ CreateSeq[2].name = "temp0_alarmthresh"
            /\ CreateSeq[3].name = "temp0_dalarmthresh"
        aggregate == BitOr(BitOr(CreateSeq[1].val, CreateSeq[2].val), CreateSeq[3].val)
    IN  /\ (op = "init" /\ pc = "init_check") => (attempted /\ rc = aggregate)
        /\ (InitDone /\ RegisteredNow # {}) =>
              /\ attempted
              /\ ret = aggregate
              /\ (ret # 0) <=> (\E k \in 1..3 : CreateSeq[k].val # 0)

\* the first and the third attempt failed with different errors, the second
\* succeeded; the call returned the OR of -12 and -2
C12_Witness ==
    /\ InitDone /\ RegisteredNow # {}
    /\ Len(CreateSeq) = 3
    /\ CreateSeq[1].val = -ENOMEM /\ CreateSeq[2].val = 0 /\ CreateSeq[3].val = -2
    /\ ret = -2


\* txgbe_sysfs_del_adapter is between its first and its last statement
InTeardown == pc \in {"del_loop", "del_device", "del_count"}

\* C13 (the claim as stated, at the point it differs from the code): the count
\* is set to 0 after the table is freed and before the hwmon device is
\* unregistered, so it is 0 when the unregistration is about to run.
C13_CountClearedBeforeUnregister ==
    pc = "del_device" => n_hwmon = 0

\* C13 (amended): teardown removes the files of hwmon_list[0..n_hwmon) in
\* ascending index order, then frees the table and resets hwmon_list, then
\* unregisters the hwmon device if device is non-NULL and resets device, and
\* only as its last step sets n_hwmon = 0.  Every live file is removed before
\* the table is freed and before the hwmon device is unregistered.
C13_TeardownOrder ==
    /\ pc = "del_loop" =>
          /\ hwmon_list # NULL /\ hwmon_list \in allocated
          /\ i <= n_hwmon
          /\ EventsOf("kfree") = {} /\ EventsOf("hwmon_device_unregister") = {}
          /\ \A k \in 0..(i - 1) :
                /\ log[Len(log) - i + 1 + k] =
                      Event("device_remove_file", tables[hwmon_list][k], 0)
                /\ ~files[tables[hwmon_list][k]].present
          /\ \A k \in i..(n_hwmon - 1) :
                files[tables[hwmon_list][k]] = FileOf(hwmon_list, k)
    /\ pc = "del_device" =>
          /\ hwmon_list = NULL
          /\ EventsOf("hwmon_device_unregister") = {}
          /\ \A nm \in Owned(files) : files[nm].table \in allocated
    /\ pc = "del_count" => (hwmon_list = NULL /\ device = NULL)
    /\ \A a \in EventsOf("device_remove_file") :
          \A b \in EventsOf("kfree") \cup EventsOf("hwmon_device_unregister") : a < b
    /\ \A a \in EventsOf("kfree") : \A b \in EventsOf("hwmon_device_unregister") : a < b
    /\ (InTeardown /\ op = "exit") => n_hwmon = pre.n
    /\ (InTeardown /\ op = "init") => n_hwmon = Cardinality(CreatedOk)
    /\ (pc = "ret" /\ op = "exit" /\ adapter = "adapter") => n_hwmon = 0

\* teardown of an Active registry just before its last statement: the three
\* files are removed, the table is freed, the hwmon device is unregistered,
\* device is NULL and n_hwmon is still 3
C13_Witness ==
    /\ pc = "del_count" /\ op = "exit"
    /\ n_hwmon = 3 /\ device = NULL /\ hwmon_list = NULL
    /\ Len(log) = 5
    /\ log[1].name = "temp0_input" /\ log[2].name = "temp0_alarmthresh"
    /\ log[3].name = "temp0_dalarmthresh"
    /\ log[4].call = "kfree" /\ log[5].call = "hwmon_device_unregister"

\* a file the host can dispatch a read for: present, and created by this
\* registry through a slot of a table
Readable == {nm \in Names : files[nm].present /\ files[nm].table # NULL}
\* the slot a file was created with is in a table that is still allocated and
\* still holds the file's own name and callback
SlotLive(nm) ==
    /\ files[nm].table \in allocated
    /\ tables[files[nm].table][files[nm].slot] = nm

\* C14: with reads of the three files interleaved at any point of
\* txgbe_sysfs_init and txgbe_sysfs_exit, and the host dispatching reads only
\* for files that have not been removed, every accessor that runs finds the
\* slot it was created with in a table that has not been freed and that still
\* holds its own kind; no file that can be read points at a freed table or a
\* rewritten slot.
C14_AccessorsSeeLiveSlots ==
    /\ rd.valid
    /\ \A nm \in Readable : SlotLive(nm)
C14_Witness ==
    /\ pc = "del_loop"
    /\ op = "exit"
    /\ i = 1
    /\ rd.at = "teardown"
    /\ rd.name = "temp0_dalarmthresh"
    /\ rd.valid

ThresholdNames == {"temp0_alarmthresh", "temp0_dalarmthresh"}

\* C15: a read of temp0_input calls get_thermal_sensor_data exactly once and
\* prints the reading the HAL delivered at that read, so a read after the HAL
\* went from 45 to 50 prints 50000 where the read before printed 45000; a read
\* of temp0_alarmthresh or temp0_dalarmthresh calls it zero times and leaves
\* the sensor record as it was.
C15_ReadAfterRefresh ==
    /\ [](rd.name = "temp0_input" =>
            /\ rd.refreshes = 1
            /\ sensor.temp = rd.hw
            /\ rd.out = SprintfU(TimesThousandU32(rd.hw)))
    /\ [](rd.name \in ThresholdNames => rd.refreshes = 0)
    /\ [][rd'.name \in ThresholdNames => sensor' = sensor]_vars
C15_Witness ==
    /\ rd.name = "temp0_input"
    /\ rd.refreshes = 1
    /\ rd.hw = 50
    /\ rd.out = <<"5", "0", "0", "0", "0", "\n">>
    /\ rd.last = [name |-> "temp0_input", out |-> <<"4", "5", "0", "0", "0", "\n">>]

\* the decimal representation of an integer
Decimal(v) == IF v < 0 THEN <<"-">> \o Digits(-v) ELSE Digits(v)
\* the field of the sensor record the accessor of a file prints
FieldOf(nm) ==
    CASE nm = "temp0_input" -> sensor.temp
      [] nm = "temp0_alarmthresh" -> sensor.alarm_thresh
      [] OTHER -> sensor.dalarm_thresh

\* C16: whatever value v the field of the sensor record holds, the accessor
\* of temp0_input, temp0_alarmthresh or temp0_dalarmthresh prints the decimal
\* representation of v * 1000 followed by a newline.
C16_DecimalOfMilliDegrees ==
    rd.name # "" => rd.out = Append(Decimal(FieldOf(rd.name) * 1000), "\n")

\* C17: when device_create_file fails for one or more of the three names,
\* the value txgbe_sysfs_init returns tells which names failed: two calls in
\* which different sets of names failed return different values.
C17_ErrorTellsKinds ==
    (/\ InitDone
     /\ CreateFailed # {}
     /\ PrevWas("init")
     /\ prev.failed # {}
     /\ prev.failed # CreateFailed) => ret # prev.ret

\* C18: when init_thermal_sensor_thresh reports no sensor, txgbe_sysfs_init
\* leaves hwmon_list, n_hwmon and device as they were when it was called, be
\* the registry torn down or active, and makes no call to the heap or the host:
\* the tables, the registered hwmon devices and the files stay as they were.
C18_NoSensorFrame ==
    (op = "init" /\ adapter = "adapter" /\ NoSensorReported) =>
        /\ hwmon_list = pre.list
        /\ n_hwmon = pre.n
        /\ device = pre.dev
        /\ allocated = pre.allocated
        /\ hostDevs = pre.hostDevs
        /\ Present(files) = pre.present
        /\ Owned(files) = pre.owned
        /\ Len(log) = 1
C18_Witness ==
    /\ InitDone /\ NoSensorReported
    /\ pre.n = 3 /\ n_hwmon = 3
    /\ pre.dev # NULL /\ device = pre.dev
    /\ hwmon_list # NULL
    /\ Owned(files) = Names

\* C19: txgbe_sysfs_init called with a NULL adapter goes from its entry to
\* the err label, where txgbe_sysfs_del_adapter returns at once, and returns
\* 0; txgbe_sysfs_exit called with a NULL adapter returns at once.  Neither
\* makes a call to the HAL, the heap or the host, and the registry, the
\* tables, the hwmon devices and the files stay as they were.
C19_NullAdapterNoOp ==
    /\ []((adapter = "NULL" /\ op \in {"init", "exit"}) =>
            /\ pc \in {"init_entry", "del_entry", "ret", "idle"}
            /\ log = <<>>
            /\ Snapshot = pre
            /\ (pc = "idle" /\ op = "init") => ret = 0)
    /\ [][(adapter = "NULL" /\ pc = "init_entry" /\ pc' # pc) => pc' = "del_entry"]_vars
    /\ [][(adapter = "NULL" /\ pc = "del_entry" /\ pc' # pc) => pc' = "ret"]_vars
C19_Witness ==
    /\ pc = "idle" /\ op = "init" /\ adapter = "NULL"
    /\ ret = 0
    /\ log = <<>>
    /\ prev.op = "init" /\ prev.adapter = "adapter" /\ prev.ret # 0

====
